---- MODULE Spec2Model ----
(***************************************************************************)
(* Model of BeamSearch.search (modules/nn/beam_search.py).                 *)
(*                                                                         *)
(* Tensors are functions over 0-based index ranges, so that the flattened  *)
(* candidate index and its integer division by per_node_beam_size read as  *)
(* in the source.  Lists (predictions, backpointers) are sequences.        *)
(* Log-probabilities are integers <= 0 together with NegInf, which stands  *)
(* for float("-inf") and absorbs addition.  torch.topk leaves the order of *)
(* equal values unspecified: TopK is the set of all selections it may      *)
(* return.  The step functions are external: every table of                *)
(* log-probabilities over LogProbs is a possible return value.             *)
(***************************************************************************)
EXTENDS Integers, Sequences, FiniteSets

VARIABLES cfg, pc, err, predictions, backpointers, last_log_probabilities,
          start_state, state, state_alias, calls, assigned, result

vars == <<cfg, pc, err, predictions, backpointers, last_log_probabilities,
          start_state, state, state_alias, calls, assigned, result>>

\* Bounds of the model.
MaxBatch == 2
MaxBeam == 2
MaxVocab == 2
MaxSteps == 3
MaxStepsVariant == 2
MaxCost == 1
MaxCells == 4

\* float("-inf"): below every finite cumulative log-probability of the model.
NegInf == 0 - (MaxSteps * MaxCost + 1)

LogProbs == {NegInf} \cup ((0 - MaxCost)..0)

\* Float addition restricted to log-probabilities: -inf absorbs.
AddLP(a, b) == IF a = NegInf \/ b = NegInf THEN NegInf ELSE a + b

Keys == {"h"}

NoResult == <<>>

\* The constructor's parameters and the shape of the call's inputs:
\* has_first_step tells whether a first_step function is passed, inplace
\* whether the step functions return the very mapping they were passed.
\* Calls that omit first_step or use in-place step functions are explored up
\* to MaxStepsVariant steps, the others up to MaxSteps.
Configs ==
    { c \in [ end_index : 0..(MaxVocab - 1),
              max_steps : 1..MaxSteps,
              beam_size : 1..MaxBeam,
              per_node_beam_size : 1..MaxBeam,
              batch_size : 1..MaxBatch,
              num_classes : 1..MaxVocab,
              has_first_step : BOOLEAN,
              inplace : BOOLEAN ] :
        /\ c.end_index < c.num_classes
        /\ c.batch_size * c.beam_size * c.num_classes <= MaxCells
        /\ (~c.has_first_step \/ c.inplace) => c.max_steps <= MaxStepsVariant }

\* start_predictions: one start token per batch element.
StartPredictions(c) == [b \in 0..(c.batch_size - 1) |-> 0]

\* start_state: every array has leading dimension batch_size; row b holds b.
StartState(c) == [key \in Keys |-> [i \in 1..c.batch_size |-> i - 1]]

Range(f) == {f[x] : x \in DOMAIN f}

Injections(n, k) ==
    {s \in [0..(k - 1) -> 0..(n - 1)] :
        \A i, j \in 0..(k - 1) : i # j => s[i] # s[j]}

\* torch.topk(k) over a row with n entries returns k distinct positions, the
\* values in descending order and none left out that is larger; the order
\* among equal values is unspecified.  IsTopK: s is a selection it may return.
IsTopK(row, n, k, s) ==
    /\ \A i \in 0..(k - 2) : row[s[i]] >= row[s[i + 1]]
    /\ \A j \in (0..(n - 1)) \ Range(s) : row[j] <= row[s[k - 1]]

ConfigCheckMissing(c) == TRUE

\* if self.per_node_beam_size > num_classes: raise ConfigurationError
ConfigOK(c) == c.per_node_beam_size <= c.num_classes

\* log_probs_after_end: one row of the tensor that mandates the end token.
LogProbsAfterEnd(c) ==
    [v \in 0..(c.num_classes - 1) |-> IF v = c.end_index THEN 0 ELSE NegInf]

\* predictions[-1].reshape(batch_size * beam_size)
LastPredictions(c, preds) ==
    [i \in 0..(c.batch_size * c.beam_size - 1) |->
        preds[Len(preds)][i \div c.beam_size][i % c.beam_size]]

\* (last_predictions == self._end_index).all()
AllEnded(c, last) == \A i \in DOMAIN last : last[i] = c.end_index

CleanedNoMask(c, last, scores) == scores

\* torch.where(last_predictions_expanded == end_index, log_probs_after_end, class_log_probabilities)
Cleaned(c, last, scores) ==
    [i \in DOMAIN last |->
        IF last[i] = c.end_index THEN LogProbsAfterEnd(c) ELSE scores[i]]

ExpandStateMissing(c, st) == st

\* unsqueeze(1).expand(batch_size, beam_size, *).reshape(batch_size * beam_size, *)
ExpandState(c, st) ==
    [key \in DOMAIN st |->
        [i \in 1..(c.batch_size * c.beam_size) |-> st[key][((i - 1) \div c.beam_size) + 1]]]

\* reshape(batch_size, beam_size, *).gather(1, expanded_backpointer).reshape(batch_size * beam_size, *)
GatherState(c, st, bp) ==
    [key \in DOMAIN st |->
        [i \in 1..(c.batch_size * c.beam_size) |->
            st[key][((i - 1) \div c.beam_size) * c.beam_size
                    + bp[(i - 1) \div c.beam_size][(i - 1) % c.beam_size] + 1]]]

LeadingDim(st) == Len(st["h"])

Init ==
    /\ cfg \in Configs
    /\ pc = "start"
    /\ err = "none"
    /\ predictions = <<>>
    /\ backpointers = <<>>
    /\ last_log_probabilities = <<>>
    /\ start_state = StartState(cfg)
    /\ state = StartState(cfg)
    /\ state_alias = TRUE
    /\ calls = <<>>
    /\ assigned = <<>>
    /\ result = NoResult

\* The record of one scoring call: the function called, the number of tokens
\* and the leading dimension of the state it receives.
Call(fn, tokens, st) ==
    [fn |-> fn, ntokens |-> Cardinality(DOMAIN tokens), state_dim |-> LeadingDim(st)]

\* first_step = first_step or step
FirstStepFn(c) == IF c.has_first_step THEN "first_step" ELSE "step"

\* top_log_probabilities + expanded_last_log_probabilities, reshaped to
\* (batch_size, beam_size * per_node_beam_size) for batch element b.
Summed(c, cleaned, node, last_lp, b) ==
    [j \in 0..(c.beam_size * c.per_node_beam_size - 1) |->
        AddLP(cleaned[b * c.beam_size + (j \div c.per_node_beam_size)]
                     [node[b * c.beam_size + (j \div c.per_node_beam_size)][j % c.per_node_beam_size]],
              last_lp[b][j \div c.per_node_beam_size])]

\* predicted_classes reshaped to (batch_size, beam_size * per_node_beam_size).
ReshapedClasses(c, node, b) ==
    [j \in 0..(c.beam_size * c.per_node_beam_size - 1) |->
        node[b * c.beam_size + (j \div c.per_node_beam_size)][j % c.per_node_beam_size]]

\* backpointer = restricted_beam_indices / self.per_node_beam_size
Backpointer(c, top) ==
    [b \in DOMAIN top |-> [k \in DOMAIN top[b] |-> top[b][k] \div c.per_node_beam_size]]

\* The loop of the reconstruction: timestep runs from len(predictions) - 2
\* down to 1 (list positions counted from 0).  acc is reconstructed_predictions.
RECURSIVE ReconLoop(_, _, _, _, _)
ReconLoop(preds, bps, timestep, cur, acc) ==
    IF timestep <= 0
    THEN [cur |-> cur, acc |-> acc]
    ELSE ReconLoop(preds, bps, timestep - 1,
                   [b \in DOMAIN cur |-> [k \in DOMAIN cur[b] |-> bps[timestep][b][cur[b][k]]]],
                   Append(acc, [b \in DOMAIN cur |->
                                   [k \in DOMAIN cur[b] |-> preds[timestep + 1][b][cur[b][k]]]]))

\* torch.cat(list(reversed(reconstructed_predictions)), 2)
CatReversed(acc) ==
    [b \in DOMAIN acc[1] |->
        [k \in DOMAIN acc[1][b] |->
            [t \in 1..Len(acc) |-> acc[Len(acc) + 1 - t][b][k]]]]

\* Lines 238-262 for a non-empty list of backpointers.
Reconstructed(preds, bps) ==
    LET loop == ReconLoop(preds, bps, Len(preds) - 2, bps[Len(bps)], <<preds[Len(preds)]>>)
        final_preds == [b \in DOMAIN loop.cur |->
                           [k \in DOMAIN loop.cur[b] |-> preds[1][b][loop.cur[b][k]]]]
    IN  CatReversed(Append(loop.acc, final_preds))

Fail(e) ==
    /\ pc' = "failed"
    /\ err' = e

\* Lines 88-144: the first scoring call, the check of per_node_beam_size, the
\* first top-k and the broadcast of the state over the beam.  The mapping a
\* step function returns is the very mapping it was passed when cfg.inplace
\* (state_alias: state is the caller's start_state object, and a write to
\* state is a write to start_state), otherwise a fresh mapping; either way its
\* arrays keep their contents.  assigned records, per step and slot, the
\* log-probability the scoring function returned for the chosen token.
FirstStep ==
    /\ pc = "start"
    /\ \E scores \in [0..(cfg.batch_size - 1) -> [0..(cfg.num_classes - 1) -> LogProbs]] :
        /\ calls' = <<Call(FirstStepFn(cfg), StartPredictions(cfg), start_state)>>
        /\ state_alias' = cfg.inplace
        /\ IF ~ConfigOK(cfg)
           THEN /\ Fail("ConfigurationError")
                /\ UNCHANGED <<predictions, last_log_probabilities, assigned, start_state, state>>
           ELSE IF cfg.beam_size > cfg.num_classes
           THEN /\ Fail("RuntimeError")
                /\ UNCHANGED <<predictions, last_log_probabilities, assigned, start_state, state>>
           ELSE \E sel \in [0..(cfg.batch_size - 1) -> Injections(cfg.num_classes, cfg.beam_size)] :
                /\ \A b \in DOMAIN sel : IsTopK(scores[b], cfg.num_classes, cfg.beam_size, sel[b])
                /\ predictions' = <<sel>>
                /\ last_log_probabilities' =
                       [b \in DOMAIN sel |-> [k \in DOMAIN sel[b] |-> scores[b][sel[b][k]]]]
                /\ assigned' = <<last_log_probabilities'>>
                /\ state' = ExpandState(cfg, state)
                /\ start_state' = IF cfg.inplace THEN state' ELSE start_state
                /\ pc' = "loop"
                /\ err' = err
    /\ UNCHANGED <<cfg, backpointers, result>>

\* Lines 146-236: one iteration of the main loop.
Step ==
    /\ pc = "loop"
    /\ Len(predictions) < cfg.max_steps
    /\ ~AllEnded(cfg, LastPredictions(cfg, predictions))
    /\ LET last == LastPredictions(cfg, predictions)
           G == cfg.batch_size * cfg.beam_size
       IN
       \E scores \in [0..(G - 1) -> [0..(cfg.num_classes - 1) -> LogProbs]] :
        /\ calls' = Append(calls, Call("step", last, state))
        /\ state_alias' = (state_alias /\ cfg.inplace)
        /\ IF cfg.per_node_beam_size > cfg.num_classes
           THEN /\ Fail("RuntimeError")
                /\ UNCHANGED <<predictions, backpointers, last_log_probabilities,
                               assigned, start_state, state>>
           ELSE
           LET cleaned == Cleaned(cfg, last, scores) IN
           \E node \in [0..(G - 1) -> Injections(cfg.num_classes, cfg.per_node_beam_size)] :
            /\ \A i \in DOMAIN node :
                   IsTopK(cleaned[i], cfg.num_classes, cfg.per_node_beam_size, node[i])
            /\ LET summed == [b \in 0..(cfg.batch_size - 1) |->
                                 Summed(cfg, cleaned, node, last_log_probabilities, b)]
               IN
               \E top \in [0..(cfg.batch_size - 1) ->
                             Injections(cfg.beam_size * cfg.per_node_beam_size, cfg.beam_size)] :
                LET backpointer == Backpointer(cfg, top)
                    classes == [b \in DOMAIN top |-> ReshapedClasses(cfg, node, b)]
                IN
                /\ \A b \in DOMAIN top :
                       IsTopK(summed[b], cfg.beam_size * cfg.per_node_beam_size,
                              cfg.beam_size, top[b])
                /\ predictions' = Append(predictions,
                       [b \in DOMAIN top |->
                           [k \in DOMAIN top[b] |-> classes[b][top[b][k]]]])
                /\ last_log_probabilities' =
                       [b \in DOMAIN top |-> [k \in DOMAIN top[b] |-> summed[b][top[b][k]]]]
                /\ backpointers' = Append(backpointers, backpointer)
                /\ assigned' = Append(assigned,
                       [b \in DOMAIN top |->
                           [k \in DOMAIN top[b] |->
                               scores[b * cfg.beam_size + backpointer[b][k]]
                                     [classes[b][top[b][k]]]]])
                /\ IF LeadingDim(state) # G
                   THEN /\ Fail("RuntimeError")
                        /\ UNCHANGED <<start_state, state>>
                   ELSE /\ state' = GatherState(cfg, state, backpointer)
                        /\ start_state' = IF state_alias' THEN state' ELSE start_state
                        /\ pc' = "loop"
                        /\ err' = err
    /\ UNCHANGED <<cfg, result>>

\* Lines 238-262: the loop has ended (max_steps reached or early stop).
Reconstruct ==
    /\ pc = "loop"
    /\ \/ Len(predictions) >= cfg.max_steps
       \/ AllEnded(cfg, LastPredictions(cfg, predictions))
    /\ IF backpointers = <<>>
       THEN /\ Fail("IndexError")
            /\ UNCHANGED result
       ELSE /\ result' = Reconstructed(predictions, backpointers)
            /\ pc' = "done"
            /\ err' = err
    /\ UNCHANGED <<cfg, predictions, backpointers, last_log_probabilities,
                   start_state, state, state_alias, calls, assigned>>

Next == FirstStep \/ Step \/ Reconstruct

Spec == Init /\ [][Next]_vars

----------------------------------------------------------------------------
(* Vocabulary of the properties.  Time step t of the source is position    *)
(* t + 1 of predictions; the backpointers of position t >= 2 are           *)
(* backpointers[t - 1].                                                    *)

Batch == 0..(cfg.batch_size - 1)
Beam == 0..(cfg.beam_size - 1)
Finished == pc \in {"done", "failed"}

Parent(t, b, k) == backpointers[t - 1][b][k]
ParentEnded(t, b, k) == predictions[t - 1][b][Parent(t, b, k)] = cfg.end_index

ResultLenIs(n) ==
    /\ pc = "done"
    /\ \A b \in Batch : \A k \in Beam : Len(result[b][k]) = n

\* The slot at position t that slot k of position from descends from.
RECURSIVE AncestorSlot(_, _, _, _)
AncestorSlot(from, t, b, k) ==
    IF from <= t THEN k ELSE AncestorSlot(from - 1, t, b, backpointers[from - 1][b][k])

\* The log-probability the claim assigns to the token chosen at position t.
AssignedLP(t, b, k) ==
    IF t > 1 /\ ParentEnded(t, b, k) /\ predictions[t][b][k] = cfg.end_index
    THEN 0
    ELSE assigned[t][b][k]

RECURSIVE ChainSum(_, _, _)
ChainSum(t, b, k) ==
    IF t = 1
    THEN AssignedLP(1, b, k)
    ELSE AddLP(ChainSum(t - 1, b, Parent(t, b, k)), AssignedLP(t, b, k))

\* C1: when the search has ended and every hypothesis of the last recorded
\* step t holds end_index, the search returned, it made t + 1 scoring calls
\* and the returned sequences have length t + 1 (t = 0 included).
C1_EarlyStop ==
    (Finished /\ predictions # <<>> /\ AllEnded(cfg, LastPredictions(cfg, predictions)))
        => (/\ pc = "done"
            /\ Len(calls) = Len(predictions)
            /\ ResultLenIs(Len(predictions)))

\* C2 (as stated): the configuration error is raised before any scoring
\* call, and no predictions are produced.
C2_ErrorBeforeAnyCall ==
    err = "ConfigurationError" => (Len(calls) = 0 /\ predictions = <<>> /\ result = NoResult)

\* C2 (amended): when per_node_beam_size exceeds the vocabulary size, the
\* search fails with the configuration error after exactly one scoring call,
\* the first one, before any token is selected and before any call of the
\* loop; no predictions are produced.
C2_ErrorAfterFirstCall ==
    (pc # "start" /\ cfg.per_node_beam_size > cfg.num_classes)
        => (/\ pc = "failed"
            /\ err = "ConfigurationError"
            /\ Len(calls) = 1
            /\ calls[1].fn = FirstStepFn(cfg)
            /\ predictions = <<>>
            /\ result = NoResult)

C2_Witness ==
    /\ pc = "failed"
    /\ err = "ConfigurationError"
    /\ cfg.per_node_beam_size > cfg.num_classes
    /\ Len(calls) = 1

\* C3: in every configuration that passes the per_node_beam_size check the
\* search does not fail on the beam width, and every recorded step and
\* last_log_probabilities hold exactly beam_size entries per batch element.
C3_BeamWidth ==
    (pc # "start" /\ ConfigOK(cfg))
        => (/\ err # "RuntimeError"
            /\ predictions # <<>>
            /\ \A t \in 1..Len(predictions) : \A b \in Batch :
                   DOMAIN predictions[t][b] = Beam
            /\ \A b \in Batch : DOMAIN last_log_probabilities[b] = Beam)

\* C4: once the loop has ended, the search returns, and the returned token
\* at position t of slot k is the recorded token of step t at the slot reached
\* from k by the backpointers; for every number of recorded steps, one included.
C4_Reconstruction ==
    (Finished /\ predictions # <<>>)
        => (/\ pc = "done"
            /\ \A b \in Batch : \A k \in Beam : \A t \in 1..Len(predictions) :
                   result[b][k][t] = predictions[t][b][AncestorSlot(Len(predictions), t, b, k)])

\* C5: in every loop step, a surviving hypothesis that emits end_index and
\* whose parent had already ended keeps its parent's cumulative
\* log-probability, whatever the step function returned.
C5_ForcedEndCostsNothing ==
    [][ (Len(predictions') = Len(predictions) + 1 /\ Len(predictions) >= 1)
          => \A b \in Batch : \A k \in Beam :
                LET p == backpointers'[Len(backpointers')][b][k] IN
                (/\ predictions[Len(predictions)][b][p] = cfg.end_index
                 /\ predictions'[Len(predictions')][b][k] = cfg.end_index)
                    => last_log_probabilities'[b][k] = last_log_probabilities[b][p] ]_vars

\* A loop step in which an ended parent survives with end_index although the
\* step function gave that token a log-probability other than 0.
C5_Witness ==
    /\ Len(predictions) >= 2
    /\ \E b \in Batch : \E k \in Beam :
        /\ ParentEnded(Len(predictions), b, k)
        /\ predictions[Len(predictions)][b][k] = cfg.end_index
        /\ assigned[Len(predictions)][b][k] # 0
        /\ last_log_probabilities[b][k] # NegInf

\* C6: after search returns, the caller's start_state is bound to the
\* arrays it was bound to before the call (the claim says the same of a
\* search that fails).
C6_InputsUnchanged ==
    pc = "done" => start_state = StartState(cfg)

\* C7 (as stated): a scoring call receives batch_size tokens only as the
\* first call with a first_step supplied; every other call receives
\* batch_size * beam_size tokens and a state of that leading dimension.
\* Stated of the searches that return.
C7_GroupSizeAsStated ==
    pc = "done" => \A i \in 1..Len(calls) :
        IF i = 1 /\ cfg.has_first_step
        THEN calls[i].ntokens = cfg.batch_size
        ELSE /\ calls[i].ntokens = cfg.batch_size * cfg.beam_size
             /\ calls[i].state_dim = cfg.batch_size * cfg.beam_size

\* C7 (amended): the first scoring call, made to first_step or, when
\* first_step is omitted, to step, receives batch_size tokens and a state of
\* leading dimension batch_size; every later call is made to step and
\* receives batch_size * beam_size tokens and a state of that leading dimension.
C7_GroupSize ==
    \A i \in 1..Len(calls) :
        IF i = 1
        THEN /\ calls[i].fn = FirstStepFn(cfg)
             /\ calls[i].ntokens = cfg.batch_size
             /\ calls[i].state_dim = cfg.batch_size
        ELSE /\ calls[i].fn = "step"
             /\ calls[i].ntokens = cfg.batch_size * cfg.beam_size
             /\ calls[i].state_dim = cfg.batch_size * cfg.beam_size

C7_Witness ==
    /\ Len(calls) >= 2
    /\ ~cfg.has_first_step
    /\ cfg.beam_size >= 2
    /\ calls[1].fn = "step"
    /\ calls[1].ntokens = cfg.batch_size

\* C8: for every max_steps >= 1 the search returns sequences whose length
\* is the number of scoring calls made, between 1 and max_steps.
C8_MaxStepsCap ==
    (Finished /\ ConfigOK(cfg) /\ cfg.beam_size <= cfg.num_classes)
        => (/\ pc = "done"
            /\ Len(calls) >= 1
            /\ Len(calls) <= cfg.max_steps
            /\ ResultLenIs(Len(calls)))

\* C9: at every loop step, a surviving hypothesis whose parent had ended
\* holds end_index.  Stated of the searches whose first step gave every
\* selected token a finite log-probability; the claim covers the others too.
C9_EndSticks ==
    \A t \in 2..Len(predictions) : \A b \in Batch : \A k \in Beam :
        (/\ \A kk \in Beam : assigned[1][b][kk] # NegInf
         /\ ParentEnded(t, b, k))
            => predictions[t][b][k] = cfg.end_index

\* C10: after every step, last_log_probabilities[b][k] is the sum along the
\* backpointer chain of the log-probability of each chosen token: the scoring
\* function's value, or 0 for end_index after an ended parent.
C10_Cumulative ==
    (pc \in {"loop", "done"} /\ predictions # <<>>)
        => \A b \in Batch : \A k \in Beam :
               last_log_probabilities[b][k] = ChainSum(Len(predictions), b, k)

====
